---- MODULE Spec2Model ----
(***************************************************************************)
(* A model of the in-memory object store of src/object-store.js.           *)
(*                                                                         *)
(* The JavaScript heap is modelled explicitly: every Entry object is a     *)
(* heap cell whose address is the value of the module counter nextId that  *)
(* its construction consumed.  The store's two Maps are keyed by the id    *)
(* STRING of an entry and hold references to heap cells, a Folder's        *)
(* #entries array is a sequence of references.  Every public operation is  *)
(* one action: it runs to completion or to its first throw, and what it    *)
(* mutated before the throw stays mutated.                                 *)
(***************************************************************************)
EXTENDS Integers, Sequences, FiniteSets, TLC

\* ------------------------------------------------------------------------
\* Bounds of the model
\* ------------------------------------------------------------------------

\* no Entry is constructed once the module counter has reached this value
MaxNextId == 3

\* the clock stops advancing at this value (milliseconds since the epoch)
MaxTime == 1

\* depth of nested deleteFolder calls at which the engine gives up
StackLimit == 8

\* the same limit on the counter for the workload that updates entries
MaxUpdateNextId == 2

\* ------------------------------------------------------------------------
\* JavaScript values
\* ------------------------------------------------------------------------

undefined == [t |-> "undefined"]

\* a string used as a name or as an id
Str(s) == [t |-> "string", v |-> s]

\* a string used as file content: its UTF-16 code units
Text(units) == [t |-> "string", units |-> units]

\* an ArrayBuffer holding the given bytes
Buffer(bytes) == [t |-> "ArrayBuffer", bytes |-> bytes]

\* the reference held by a Map entry whose value is undefined
NoRef == -1

\* if (name), if (parentId), if (id): a string is truthy unless it is empty
Truthy(x) == x.t = "string" /\ x.v # ""

\* if (content), !this.#content: an ArrayBuffer is an object, always truthy
TruthyContent(x) ==
    \/ x.t = "ArrayBuffer"
    \/ x.t = "string" /\ Len(x.units) > 0

Digits == <<"0", "1", "2", "3", "4", "5", "6", "7", "8", "9">>

\* String(n) for a non-negative integer n
RECURSIVE String(_)
String(n) ==
    IF n < 10 THEN Digits[n + 1]
    ELSE String(n \div 10) \o Digits[(n % 10) + 1]

\* Date.prototype.toISOString for a time within the first second of the epoch
toISOString(t) ==
    "1970-01-01T00:00:00."
        \o Digits[((t \div 100) % 10) + 1]
        \o Digits[((t \div 10) % 10) + 1]
        \o Digits[(t % 10) + 1]
        \o "Z"

\* new TextEncoder().encode(s).byteLength for the code units of s
RECURSIVE Utf8Length(_)
Utf8Length(units) ==
    IF units = <<>> THEN 0
    ELSE LET u == Head(units)
             rest == Tail(units)
         IN  IF u < 128 THEN 1 + Utf8Length(rest)
             ELSE IF u < 2048 THEN 2 + Utf8Length(rest)
             ELSE IF /\ u >= 55296 /\ u <= 56319
                     /\ rest # <<>>
                     /\ Head(rest) >= 56320 /\ Head(rest) <= 57343
                  THEN 4 + Utf8Length(Tail(rest))
             ELSE 3 + Utf8Length(rest)

\* ------------------------------------------------------------------------
\* Maps
\* ------------------------------------------------------------------------

\* Map.prototype.get: undefined for a missing key
MapGet(m, k) == IF k \in DOMAIN m THEN m[k] ELSE NoRef

MapSet(m, k, v) == [x \in (DOMAIN m) \cup {k} |-> IF x = k THEN v ELSE m[x]]

MapDelete(m, k) == [x \in (DOMAIN m) \ {k} |-> m[x]]

\* ------------------------------------------------------------------------
\* Errors
\* ------------------------------------------------------------------------

NoError == [kind |-> "none", message |-> ""]

\* throw new TypeError(message) of the store, by the precondition it reports
NotFound(message) == [kind |-> "NotFound", message |-> message]

\* the error of a failed type test as it would be if it were reported like a
\* failed lookup
WrongKind_asNotFound(message) == [kind |-> "NotFound", message |-> message]

WrongKind(message) ==
    [kind |-> "WrongKind", message |-> message]

\* the TypeError the engine raises for undefined.remove(...)
UndefinedParentError ==
    [kind |-> "TypeError",
     message |-> "Cannot read properties of undefined (reading 'remove')"]

\* the RangeError the engine raises when the call stack is exhausted
StackOverflowError ==
    [kind |-> "RangeError", message |-> "Maximum call stack size exceeded"]

\* ------------------------------------------------------------------------
\* State
\* ------------------------------------------------------------------------

VARIABLES
    nextId,     \* the module-level counter
    now,        \* the last value the clock returned
    heap,       \* reference -> Entry object
    objects,    \* ObjectStore.#objects : id -> reference
    parents,    \* ObjectStore.#parents : id -> reference of a Folder, or NoRef
    root,       \* ObjectStore.#root    : reference
    ever,       \* history: every id that has been a key of #objects
    last        \* history: the last call, its target and its outcome

vars == <<nextId, now, heap, objects, parents, root, ever, last>>

\* The store and the clock as one value, threaded through the operations.
\* reads counts the clock reads of the running operation.
State ==
    [nextId |-> nextId, now |-> now, reads |-> 0, heap |-> heap,
     objects |-> objects, parents |-> parents, root |-> root]

\* the i-th clock read of an operation advances the clock by ticks[i]
Tick(ticks, i) == IF i \in DOMAIN ticks THEN ticks[i] ELSE 0

\* new Date()
NewDate(s, ticks) == s.now + Tick(ticks, s.reads + 1)

AfterNewDate(s, ticks) ==
    [s EXCEPT !.now = NewDate(s, ticks), !.reads = @ + 1]

\* ------------------------------------------------------------------------
\* Entry, File, Folder
\* ------------------------------------------------------------------------

\* the construction of an Entry as it would be if the field modifiedAt were
\* initialised before the field createdAt
NewEntry_modifiedAtFirst(s, ticks, name, type, content, id) ==
    LET ref == s.nextId
        modifiedAt == NewDate(s, ticks)
        s1 == AfterNewDate(s, ticks)
        createdAt == NewDate(s1, ticks)
        s2 == AfterNewDate(s1, ticks)
        entry == [id |-> IF Truthy(id) THEN id.v ELSE String(ref),
                  name |-> name,
                  type |-> type,
                  createdAt |-> createdAt,
                  modifiedAt |-> modifiedAt,
                  content |-> content,
                  entries |-> <<>>]
    IN  [s |-> [s2 EXCEPT !.nextId = @ + 1,
                          !.heap = MapSet(s2.heap, ref, entry)],
         ref |-> ref]

\* the construction of an Entry as it would be if the counter were
\* incremented before it is read (String(++nextId))
NewEntry_countsFromOne(s, ticks, name, type, content, id) ==
    LET ref == s.nextId
        createdAt == NewDate(s, ticks)
        s1 == AfterNewDate(s, ticks)
        modifiedAt == NewDate(s1, ticks)
        s2 == AfterNewDate(s1, ticks)
        entry == [id |-> IF Truthy(id) THEN id.v ELSE String(ref + 1),
                  name |-> name,
                  type |-> type,
                  createdAt |-> createdAt,
                  modifiedAt |-> modifiedAt,
                  content |-> content,
                  entries |-> <<>>]
    IN  [s |-> [s2 EXCEPT !.nextId = @ + 1,
                          !.heap = MapSet(s2.heap, ref, entry)],
         ref |-> ref]

\* The field initialisers of Entry followed by the constructors of Entry and
\* of File or Folder: the counter is consumed and the clock read twice before
\* the id option is looked at.
NewEntry(s, ticks, name, type, content, id) ==
    LET ref == s.nextId
        createdAt == NewDate(s, ticks)
        s1 == AfterNewDate(s, ticks)
        modifiedAt == NewDate(s1, ticks)
        s2 == AfterNewDate(s1, ticks)
        entry == [id |-> IF Truthy(id) THEN id.v ELSE String(ref),
                  name |-> name,
                  type |-> type,
                  createdAt |-> createdAt,
                  modifiedAt |-> modifiedAt,
                  content |-> content,
                  entries |-> <<>>]
    IN  [s |-> [s2 EXCEPT !.nextId = @ + 1,
                          !.heap = MapSet(s2.heap, ref, entry)],
         ref |-> ref]

\* the File constructor as it would be if it kept content only when it is
\* truthy
NewFile_dropsEmptyContent(s, ticks, name, content) ==
    NewEntry(s, ticks, name, "file",
             IF TruthyContent(content) THEN content ELSE undefined,
             undefined)

NewFile(s, ticks, name, content) ==
    NewEntry(s, ticks, name, "file", content, undefined)

NewFolder(s, ticks, name, id) ==
    NewEntry(s, ticks, name, "folder", undefined, id)

\* set name(newName) as it would be if it touched the parent folder the way
\* the content setter does
SetName_touchesParent(s, ticks, ref, newName) ==
    LET t == NewDate(s, ticks)
        s1 == AfterNewDate(s, ticks)
        s2 == [s1 EXCEPT !.heap[ref].name = newName,
                         !.heap[ref].modifiedAt = t]
        parent == MapGet(s2.parents, s2.heap[ref].id)
    IN  IF parent = NoRef THEN s2
        ELSE [s2 EXCEPT !.heap[parent].modifiedAt = t]

\* set name(newName) as it would be if it stamped both dates of the entry
SetName_stampsCreatedAt(s, ticks, ref, newName) ==
    LET t == NewDate(s, ticks)
        s1 == AfterNewDate(s, ticks)
    IN  [s1 EXCEPT !.heap[ref].name = newName,
                   !.heap[ref].createdAt = t,
                   !.heap[ref].modifiedAt = t]

\* set name(newName)
SetName(s, ticks, ref, newName) ==
    LET t == NewDate(s, ticks)
        s1 == AfterNewDate(s, ticks)
    IN  [s1 EXCEPT !.heap[ref].name = newName,
                   !.heap[ref].modifiedAt = t]

\* get size as it would be if text were measured by its length property
Size_countsUnits(entry) ==
    IF ~TruthyContent(entry.content) THEN 0
    ELSE IF entry.content.t = "ArrayBuffer" THEN Len(entry.content.bytes)
    ELSE Len(entry.content.units)

\* get size()
Size(entry) ==
    IF ~TruthyContent(entry.content) THEN 0
    ELSE IF entry.content.t = "ArrayBuffer" THEN Len(entry.content.bytes)
    ELSE Utf8Length(entry.content.units)

\* Folder.add as it would be if the entry's modifiedAt were a clock read of
\* its own
FolderAdd_readsTwice(s, ticks, folder, entry) ==
    LET t == NewDate(s, ticks)
        s1 == AfterNewDate(s, ticks)
        u == NewDate(s1, ticks)
        s2 == AfterNewDate(s1, ticks)
        h1 == [s2.heap EXCEPT ![folder].entries = Append(@, entry),
                              ![folder].modifiedAt = t]
    IN  [s2 EXCEPT !.heap = [h1 EXCEPT ![entry].modifiedAt = u]]

\* Folder.add as it would be if the entry were put in front (unshift for
\* push)
FolderAdd_unshifts(s, ticks, folder, entry) ==
    LET t == NewDate(s, ticks)
        s1 == AfterNewDate(s, ticks)
        h1 == [s1.heap EXCEPT ![folder].entries = <<entry>> \o @,
                              ![folder].modifiedAt = t]
    IN  [s1 EXCEPT !.heap = [h1 EXCEPT ![entry].modifiedAt = t]]

\* Folder.add
FolderAdd(s, ticks, folder, entry) ==
    LET t == NewDate(s, ticks)
        s1 == AfterNewDate(s, ticks)
        h1 == [s1.heap EXCEPT ![folder].entries = Append(@, entry),
                              ![folder].modifiedAt = t]
    IN  [s1 EXCEPT !.heap = [h1 EXCEPT ![entry].modifiedAt = t]]

\* Folder.remove as it would be if the filtered array were dropped and the
\* folder kept the one it had
FolderRemove_keepsEntry(s, ticks, folder, entry) ==
    LET t == NewDate(s, ticks)
        s1 == AfterNewDate(s, ticks)
        h1 == [s1.heap EXCEPT ![folder].modifiedAt = t]
    IN  [s1 EXCEPT !.heap = [h1 EXCEPT ![entry].modifiedAt = t]]

\* Folder.remove: every element with the id of entry is filtered out
FolderRemove(s, ticks, folder, entry) ==
    LET t == NewDate(s, ticks)
        s1 == AfterNewDate(s, ticks)
        keep(e) == s1.heap[e].id # s1.heap[entry].id
        h1 == [s1.heap EXCEPT ![folder].entries = SelectSeq(@, keep),
                              ![folder].modifiedAt = t]
    IN  [s1 EXCEPT !.heap = [h1 EXCEPT ![entry].modifiedAt = t]]

\* ------------------------------------------------------------------------
\* ObjectStore: the registry
\* ------------------------------------------------------------------------

\* ObjectStore.getParent
getParent(s, id) == MapGet(s.parents, id)

\* #register as it would be if every entry that has a parent were put under
\* the root folder
register_underRoot(s, ticks, entry, parent) ==
    LET id == s.heap[entry].id
        under == IF parent = NoRef THEN NoRef ELSE s.root
        s1 == [s EXCEPT !.parents = MapSet(@, id, under),
                        !.objects = MapSet(@, id, entry)]
    IN  IF under = NoRef THEN s1 ELSE FolderAdd(s1, ticks, under, entry)

\* ObjectStore.#register; parent?.add(entry) does nothing without a parent
register(s, ticks, entry, parent) ==
    LET id == s.heap[entry].id
        s1 == [s EXCEPT !.parents = MapSet(@, id, parent),
                        !.objects = MapSet(@, id, entry)]
    IN  IF parent = NoRef THEN s1 ELSE FolderAdd(s1, ticks, parent, entry)

\* #unregister as it would be without this.#parents.delete(entry.id)
unregister_keepsParentLink(s, ticks, entry) ==
    LET id == s.heap[entry].id
        parent == MapGet(s.parents, id)
        s1 == [s EXCEPT !.objects = MapDelete(@, id)]
    IN  IF parent = NoRef
        THEN [s |-> s1, error |-> UndefinedParentError]
        ELSE [s |-> FolderRemove(s1, ticks, parent, entry),
              error |-> NoError]

\* ObjectStore.#unregister; both Maps are updated before parent.remove is
\* evaluated, which throws when the Map held no parent
unregister(s, ticks, entry) ==
    LET id == s.heap[entry].id
        parent == MapGet(s.parents, id)
        s1 == [s EXCEPT !.parents = MapDelete(@, id),
                        !.objects = MapDelete(@, id)]
    IN  IF parent = NoRef
        THEN [s |-> s1, error |-> UndefinedParentError]
        ELSE [s |-> FolderRemove(s1, ticks, parent, entry),
              error |-> NoError]

\* ------------------------------------------------------------------------
\* Records
\* ------------------------------------------------------------------------

\* this.store.getParent(this.id)?.id
ParentId(s, entry) ==
    LET parent == getParent(s, s.heap[entry].id)
    IN  IF parent = NoRef THEN undefined ELSE Str(s.heap[parent].id)

\* Entry.toMiniJSON and its override File.toMiniJSON
toMiniJSON(s, entry) ==
    LET e == s.heap[entry]
        base == [id |-> e.id,
                 name |-> e.name,
                 type |-> e.type,
                 parent_id |-> ParentId(s, entry),
                 created_at |-> toISOString(e.createdAt),
                 modified_at |-> toISOString(e.modifiedAt)]
    IN  IF e.type = "file"
        THEN [id |-> base.id, name |-> base.name, type |-> base.type,
              parent_id |-> base.parent_id, created_at |-> base.created_at,
              modified_at |-> base.modified_at, size |-> Size(e)]
        ELSE base

\* Folder.toJSON as it would be if each child folder were projected with a
\* child list of its own
toJSON_twoLevels(s, entry) ==
    LET e == s.heap[entry]
        mini == toMiniJSON(s, entry)
        Child(c) ==
            LET m == toMiniJSON(s, c)
            IN  IF s.heap[c].type = "folder"
                THEN [id |-> m.id, name |-> m.name, type |-> m.type,
                      parent_id |-> m.parent_id,
                      created_at |-> m.created_at,
                      modified_at |-> m.modified_at,
                      entries |-> [i \in 1..Len(s.heap[c].entries) |->
                                      toMiniJSON(s, s.heap[c].entries[i])]]
                ELSE m
    IN  IF e.type = "folder"
        THEN [id |-> mini.id, name |-> mini.name, type |-> mini.type,
              parent_id |-> mini.parent_id, created_at |-> mini.created_at,
              modified_at |-> mini.modified_at,
              entries |-> [i \in 1..Len(e.entries) |-> Child(e.entries[i])]]
        ELSE mini

\* toJSON as it would be if a file's own record were built by
\* Entry.prototype.toMiniJSON, which knows no size
toJSON_withoutSize(s, entry) ==
    LET e == s.heap[entry]
        mini == toMiniJSON(s, entry)
    IN  IF e.type = "folder"
        THEN [id |-> mini.id, name |-> mini.name, type |-> mini.type,
              parent_id |-> mini.parent_id, created_at |-> mini.created_at,
              modified_at |-> mini.modified_at,
              entries |-> [i \in 1..Len(e.entries) |->
                              toMiniJSON(s, e.entries[i])]]
        ELSE [id |-> mini.id, name |-> mini.name, type |-> mini.type,
              parent_id |-> mini.parent_id, created_at |-> mini.created_at,
              modified_at |-> mini.modified_at]

\* Entry.toJSON and its override Folder.toJSON
toJSON(s, entry) ==
    LET e == s.heap[entry]
        mini == toMiniJSON(s, entry)
    IN  IF e.type = "folder"
        THEN [id |-> mini.id, name |-> mini.name, type |-> mini.type,
              parent_id |-> mini.parent_id, created_at |-> mini.created_at,
              modified_at |-> mini.modified_at,
              entries |-> [i \in 1..Len(e.entries) |->
                              toMiniJSON(s, e.entries[i])]]
        ELSE mini

\* what a call that threw, or that returns nothing, hands back
NoResult == [t |-> "undefined"]

Throw(s, error) == [s |-> s, error |-> error, result |-> NoResult]

Return(s, result) == [s |-> s, error |-> NoError, result |-> result]

\* ------------------------------------------------------------------------
\* ObjectStore: files
\* ------------------------------------------------------------------------

\* createFile as it would be if the File were constructed before the parent
\* is validated
createFile_constructsFirst(s, ticks, name, parentId, content) ==
    LET pid == IF parentId = undefined THEN s.heap[s.root].id ELSE parentId.v
        parent == MapGet(s.objects, pid)
        made == NewFile(s, ticks, name, content)
    IN  IF parent = NoRef THEN Throw(made.s, NotFound("Parent not found."))
        ELSE IF s.heap[parent].type # "folder"
        THEN Throw(made.s, WrongKind("Parent is not a folder."))
        ELSE LET s1 == register(made.s, ticks, made.ref, parent)
             IN  Return(s1, toJSON(s1, made.ref))

\* createFile as it would be if the record were projected before the file is
\* registered
createFile_projectsFirst(s, ticks, name, parentId, content) ==
    LET pid == IF parentId = undefined THEN s.heap[s.root].id ELSE parentId.v
        parent == MapGet(s.objects, pid)
    IN  IF parent = NoRef THEN Throw(s, NotFound("Parent not found."))
        ELSE IF s.heap[parent].type # "folder"
        THEN Throw(s, WrongKind("Parent is not a folder."))
        ELSE LET made == NewFile(s, ticks, name, content)
                 s1 == register(made.s, ticks, made.ref, parent)
             IN  Return(s1, toJSON(made.s, made.ref))

\* ObjectStore.createFile
createFile(s, ticks, name, parentId, content) ==
    LET pid == IF parentId = undefined THEN s.heap[s.root].id ELSE parentId.v
        parent == MapGet(s.objects, pid)
    IN  IF parent = NoRef THEN Throw(s, NotFound("Parent not found."))
        ELSE IF s.heap[parent].type # "folder"
        THEN Throw(s, WrongKind("Parent is not a folder."))
        ELSE LET made == NewFile(s, ticks, name, content)
                 s1 == register(made.s, ticks, made.ref, parent)
             IN  Return(s1, toJSON(s1, made.ref))

\* ObjectStore.getFile
getFile(s, id) ==
    LET file == MapGet(s.objects, id)
    IN  IF file = NoRef THEN Throw(s, NotFound("File not found."))
        ELSE IF s.heap[file].type # "file"
        THEN Throw(s, WrongKind("Not a file."))
        ELSE Return(s, toJSON(s, file))

\* ObjectStore.getFileContent
getFileContent(s, id) ==
    LET file == MapGet(s.objects, id)
    IN  IF file = NoRef
        THEN Throw(s, NotFound("File \"" \o id \o "\" not found."))
        ELSE IF s.heap[file].type # "file"
        THEN Throw(s, WrongKind("Not a file."))
        ELSE Return(s, s.heap[file].content)

\* the TypeError the engine raises for undefined.modifiedAt = ...
UndefinedParentSetError ==
    [kind |-> "TypeError",
     message |-> "Cannot set properties of undefined (setting 'modifiedAt')"]

\* the content setter as it would be if it stamped the parent with the time
\* the file was created at
SetContent_stampsParentWithCreatedAt(s, ticks, ref, value) ==
    LET t == NewDate(s, ticks)
        s1 == AfterNewDate(s, ticks)
        s2 == [s1 EXCEPT !.heap[ref].content = value,
                         !.heap[ref].modifiedAt = t]
        parent == getParent(s2, s2.heap[ref].id)
    IN  IF parent = NoRef
        THEN [s |-> s2, error |-> UndefinedParentSetError]
        ELSE [s |-> [s2 EXCEPT !.heap[parent].modifiedAt =
                                   s2.heap[ref].createdAt],
              error |-> NoError]

\* set content(value): the file is changed before its parent is looked up
SetContent(s, ticks, ref, value) ==
    LET t == NewDate(s, ticks)
        s1 == AfterNewDate(s, ticks)
        s2 == [s1 EXCEPT !.heap[ref].content = value,
                         !.heap[ref].modifiedAt = t]
        parent == getParent(s2, s2.heap[ref].id)
    IN  IF parent = NoRef
        THEN [s |-> s2, error |-> UndefinedParentSetError]
        ELSE [s |-> [s2 EXCEPT !.heap[parent].modifiedAt = t],
              error |-> NoError]

\* the move branch as it would be if the Maps were updated for the new parent
\* and the entry never added to its child list
MoveTo_withoutAdd(s, ticks, entry, parentId) ==
    IF ~Truthy(parentId) THEN [s |-> s, error |-> NoError]
    ELSE LET newParent == MapGet(s.objects, parentId.v)
             oldParent == MapGet(s.parents, s.heap[entry].id)
         IN  IF newParent = NoRef
             THEN [s |-> s,
                   error |-> NotFound("Parent \"" \o parentId.v
                                          \o "\" not found.")]
             ELSE IF s.heap[newParent].type # "folder"
             THEN [s |-> s,
                   error |-> WrongKind("Parent \"" \o parentId.v
                                           \o "\" not a folder.")]
             ELSE IF oldParent = NoRef
             THEN [s |-> s, error |-> UndefinedParentError]
             ELSE [s |-> register(FolderRemove(s, ticks, oldParent, entry),
                                  ticks, entry, NoRef),
                   error |-> NoError]

\* The move branch shared by updateFile and updateFolder:
\*   if (parentId) { ... this.#parents.get(x.id).remove(x);
\*                       this.#register(x, newParent); }
MoveTo(s, ticks, entry, parentId) ==
    IF ~Truthy(parentId) THEN [s |-> s, error |-> NoError]
    ELSE LET newParent == MapGet(s.objects, parentId.v)
             oldParent == MapGet(s.parents, s.heap[entry].id)
         IN  IF newParent = NoRef
             THEN [s |-> s,
                   error |-> NotFound("Parent \"" \o parentId.v
                                          \o "\" not found.")]
             ELSE IF s.heap[newParent].type # "folder"
             THEN [s |-> s,
                   error |-> WrongKind("Parent \"" \o parentId.v
                                           \o "\" not a folder.")]
             ELSE IF oldParent = NoRef
             THEN [s |-> s, error |-> UndefinedParentError]
             ELSE [s |-> register(FolderRemove(s, ticks, oldParent, entry),
                                  ticks, entry, newParent),
                   error |-> NoError]

\* ObjectStore.updateFile: the name, then the content, then the parent
updateFile(s, ticks, id, name, content, parentId) ==
    LET file == MapGet(s.objects, id)
    IN  IF file = NoRef THEN Throw(s, NotFound("File not found."))
        ELSE IF s.heap[file].type # "file"
        THEN Throw(s, WrongKind("Not a file."))
        ELSE
        LET s1 == IF Truthy(name) THEN SetName(s, ticks, file, name.v) ELSE s
            c  == IF TruthyContent(content)
                  THEN SetContent(s1, ticks, file, content)
                  ELSE [s |-> s1, error |-> NoError]
        IN  IF c.error # NoError THEN Throw(c.s, c.error)
            ELSE LET m == MoveTo(c.s, ticks, file, parentId)
                 IN  IF m.error # NoError THEN Throw(m.s, m.error)
                     ELSE Return(m.s, toJSON(m.s, file))

\* ObjectStore.deleteFile
deleteFile(s, ticks, id) ==
    LET file == MapGet(s.objects, id)
    IN  IF file = NoRef THEN Throw(s, NotFound("File not found."))
        ELSE IF s.heap[file].type # "file"
        THEN Throw(s, WrongKind("Not a file."))
        ELSE LET u == unregister(s, ticks, file)
             IN  IF u.error # NoError THEN Throw(u.s, u.error)
                 ELSE Return(u.s, NoResult)

\* ------------------------------------------------------------------------
\* ObjectStore: folders
\* ------------------------------------------------------------------------

\* ObjectStore.createFolder
createFolder(s, ticks, name, parentId) ==
    LET pid == IF parentId = undefined THEN s.heap[s.root].id ELSE parentId.v
        parent == MapGet(s.objects, pid)
    IN  IF parent = NoRef THEN Throw(s, NotFound("Parent not found."))
        ELSE IF s.heap[parent].type # "folder"
        THEN Throw(s, WrongKind("Parent is not a folder."))
        ELSE LET made == NewFolder(s, ticks, name, undefined)
                 s1 == register(made.s, ticks, made.ref, parent)
             IN  Return(s1, toJSON(s1, made.ref))

\* getFolder as it would be without its check of the type
getFolder_noTypeCheck(s, id) ==
    LET folder == MapGet(s.objects, id)
    IN  IF folder = NoRef THEN Throw(s, NotFound("Folder not found."))
        ELSE Return(s, toJSON(s, folder))

\* getFolder as it would be if it listed the children newest first by
\* reversing the folder's own array
getFolder_reversesInPlace(s, id) ==
    LET folder == MapGet(s.objects, id)
    IN  IF folder = NoRef THEN Throw(s, NotFound("Folder not found."))
        ELSE IF s.heap[folder].type # "folder"
        THEN Throw(s, WrongKind("Not a folder."))
        ELSE LET entries == s.heap[folder].entries
                 n == Len(entries)
                 s1 == [s EXCEPT !.heap[folder].entries =
                                     [i \in 1..n |-> entries[n + 1 - i]]]
             IN  Return(s1, toJSON(s1, folder))

\* ObjectStore.getFolder
getFolder(s, id) ==
    LET folder == MapGet(s.objects, id)
    IN  IF folder = NoRef THEN Throw(s, NotFound("Folder not found."))
        ELSE IF s.heap[folder].type # "folder"
        THEN Throw(s, WrongKind("Not a folder."))
        ELSE Return(s, toJSON(s, folder))

\* ObjectStore.updateFolder: the name, then the parent
updateFolder(s, ticks, id, name, parentId) ==
    LET folder == MapGet(s.objects, id)
    IN  IF folder = NoRef THEN Throw(s, NotFound("Folder not found."))
        ELSE IF s.heap[folder].type # "folder"
        THEN Throw(s, WrongKind("Not a folder."))
        ELSE
        LET s1 == IF Truthy(name) THEN SetName(s, ticks, folder, name.v)
                  ELSE s
            m == MoveTo(s1, ticks, folder, parentId)
        IN  IF m.error # NoError THEN Throw(m.s, m.error)
            ELSE Return(m.s, toJSON(m.s, folder))

\* ObjectStore.deleteFolder.  folder.entries() iterates the array that
\* #entries held when the loop started: Folder.remove replaces the array and
\* never changes it.  depth is the number of deleteFolder frames on the stack.
RECURSIVE deleteFolder(_, _, _, _)
RECURSIVE deleteEntries(_, _, _, _, _)
deleteEntries(s, ticks, snapshot, i, depth) ==
    IF i > Len(snapshot) THEN Return(s, NoResult)
    ELSE LET entry == s.heap[snapshot[i]]
             r == IF entry.type = "folder"
                  THEN deleteFolder(s, ticks, entry.id, depth + 1)
                  ELSE deleteFile(s, ticks, entry.id)
         IN  IF r.error # NoError THEN r
             ELSE deleteEntries(r.s, ticks, snapshot, i + 1, depth)

\* deleteFolder as it would be if it unregistered the folder and left the
\* entries of the folder alone
deleteFolder_keepsEntries(s, ticks, id, depth) ==
    LET folder == MapGet(s.objects, id)
    IN  IF folder = NoRef THEN Throw(s, NotFound("Folder not found."))
        ELSE IF s.heap[folder].type # "folder"
        THEN Throw(s, WrongKind("Not a folder."))
        ELSE LET u == unregister(s, ticks, folder)
             IN  IF u.error # NoError THEN Throw(u.s, u.error)
                 ELSE Return(u.s, NoResult)

\* deleteFolder as it would be if the folder were unregistered before its
\* entries are deleted
deleteFolder_folderFirst(s, ticks, id, depth) ==
    IF depth > StackLimit THEN Throw(s, StackOverflowError)
    ELSE
    LET folder == MapGet(s.objects, id)
    IN  IF folder = NoRef THEN Throw(s, NotFound("Folder not found."))
        ELSE IF s.heap[folder].type # "folder"
        THEN Throw(s, WrongKind("Not a folder."))
        ELSE LET u == unregister(s, ticks, folder)
             IN  IF u.error # NoError THEN Throw(u.s, u.error)
                 ELSE deleteEntries(u.s, ticks, s.heap[folder].entries, 1,
                                    depth)

deleteFolder(s, ticks, id, depth) ==
    IF depth > StackLimit THEN Throw(s, StackOverflowError)
    ELSE
    LET folder == MapGet(s.objects, id)
    IN  IF folder = NoRef THEN Throw(s, NotFound("Folder not found."))
        ELSE IF s.heap[folder].type # "folder"
        THEN Throw(s, WrongKind("Not a folder."))
        ELSE LET d == deleteEntries(s, ticks, s.heap[folder].entries, 1,
                                    depth)
             IN  IF d.error # NoError THEN d
                 ELSE LET u == unregister(d.s, ticks, folder)
                      IN  IF u.error # NoError THEN Throw(u.s, u.error)
                          ELSE Return(u.s, NoResult)

\* ------------------------------------------------------------------------
\* ObjectStore: copies.  object-store.js has no copyFile and no copyFolder;
\* its tests and its README call them.  They are written here as their
\* description gives them: the source and the target parent are validated
\* first; the target parent is the source's current parent unless one is
\* supplied, the name is the source's unless one is supplied; the copy is a
\* new entry, constructed and registered the way createFile and createFolder
\* do it; a folder is copied parent first, each child under the copy of its
\* parent, in the order and with the children the subtree has when the call
\* is made.
\* ------------------------------------------------------------------------

\* the folder a copy of the entry registered under id goes into
CopyParent(s, id, parentId) ==
    IF parentId = undefined THEN MapGet(s.parents, id)
    ELSE MapGet(s.objects, parentId.v)

\* ObjectStore.copyFile
copyFile(s, ticks, id, name, parentId) ==
    LET file == MapGet(s.objects, id)
        parent == CopyParent(s, id, parentId)
    IN  IF file = NoRef
        THEN Throw(s, NotFound("File \"" \o id \o "\" not found."))
        ELSE IF s.heap[file].type # "file"
        THEN Throw(s, WrongKind("Not a file."))
        ELSE IF parent = NoRef THEN Throw(s, NotFound("Parent not found."))
        ELSE IF s.heap[parent].type # "folder"
        THEN Throw(s, WrongKind("Parent is not a folder."))
        ELSE LET made == NewFile(s, ticks,
                                 IF name = undefined THEN s.heap[file].name
                                 ELSE name.v,
                                 s.heap[file].content)
                 s1 == register(made.s, ticks, made.ref, parent)
             IN  Return(s1, toJSON(s1, made.ref))

\* The copy of the subtree that hangs, in the state from of the call, under
\* the entry source: a new entry named name under the folder parent, then
\* the copies of the children of source under it, in their order.  The result
\* carries the reference of the new entry.
RECURSIVE CopyTree(_, _, _, _, _, _, _)
RECURSIVE CopyChildren(_, _, _, _, _, _, _)
CopyChildren(from, s, ticks, children, i, parent, depth) ==
    IF i > Len(children) THEN [s |-> s, error |-> NoError]
    ELSE LET r == CopyTree(from, s, ticks, children[i],
                           from.heap[children[i]].name, parent, depth + 1)
         IN  IF r.error # NoError THEN [s |-> r.s, error |-> r.error]
             ELSE CopyChildren(from, r.s, ticks, children, i + 1, parent,
                               depth)

CopyTree(from, s, ticks, source, name, parent, depth) ==
    IF depth > StackLimit
    THEN [s |-> s, error |-> StackOverflowError, ref |-> NoRef]
    ELSE LET e == from.heap[source]
             made == IF e.type = "file"
                     THEN NewFile(s, ticks, name, e.content)
                     ELSE NewFolder(s, ticks, name, undefined)
             s1 == register(made.s, ticks, made.ref, parent)
             c == CopyChildren(from, s1, ticks, e.entries, 1, made.ref,
                               depth)
         IN  [s |-> c.s, error |-> c.error, ref |-> made.ref]

\* ObjectStore.copyFolder
copyFolder(s, ticks, id, name, parentId) ==
    LET folder == MapGet(s.objects, id)
        parent == CopyParent(s, id, parentId)
    IN  IF folder = NoRef
        THEN Throw(s, NotFound("Folder \"" \o id \o "\" not found."))
        ELSE IF s.heap[folder].type # "folder"
        THEN Throw(s, WrongKind("Not a folder."))
        ELSE IF parent = NoRef THEN Throw(s, NotFound("Parent not found."))
        ELSE IF s.heap[parent].type # "folder"
        THEN Throw(s, WrongKind("Parent is not a folder."))
        ELSE LET c == CopyTree(s, s, ticks, folder,
                               IF name = undefined THEN s.heap[folder].name
                               ELSE name.v,
                               parent, 1)
             IN  IF c.error # NoError THEN Throw(c.s, c.error)
                 ELSE Return(c.s, toJSON(c.s, c.ref))

\* ObjectStore.constructor
constructor(s, ticks, rootFolderId) ==
    LET made == NewFolder(s, ticks, "root", rootFolderId)
        fresh == [made.s EXCEPT !.objects = <<>>, !.parents = <<>>,
                                !.root = made.ref]
    IN  Return(register(fresh, ticks, made.ref, NoRef), NoResult)

\* ------------------------------------------------------------------------
\* Garbage collection
\* ------------------------------------------------------------------------

\* the references a state holds directly
Roots(s) ==
    {s.root} \cup {s.objects[k] : k \in DOMAIN s.objects}
             \cup ({s.parents[k] : k \in DOMAIN s.parents} \ {NoRef})

RECURSIVE Reachable(_, _)
Reachable(h, refs) ==
    LET next == refs \cup UNION {{h[r].entries[i] :
                                     i \in 1..Len(h[r].entries)} : r \in refs}
    IN  IF next = refs THEN refs ELSE Reachable(h, next)

\* the heap without the objects nothing refers to any more
Collect(s) ==
    IF DOMAIN s.heap \subseteq Roots(s) THEN s.heap
    ELSE LET live == Reachable(s.heap, Roots(s))
         IN  [r \in live |-> s.heap[r]]

\* ------------------------------------------------------------------------
\* Inputs
\* ------------------------------------------------------------------------

\* the ids the allocator issues while the counter is below limit
Issued(limit) == {String(n) : n \in 0..(limit - 1)}

RECURSIVE Sum(_)
Sum(seq) == IF seq = <<>> THEN 0 ELSE Head(seq) + Sum(Tail(seq))

\* how the clock may advance over n reads: at each read by one of advances
\* (a read beyond the end of the sequence does not advance it)
TickSeqs(n, advances) ==
    IF advances = {0} THEN {<<>>}
    ELSE {ticks \in [1..n -> advances] : now + Sum(ticks) <= MaxTime}

\* The calls of a workload that exercises the tree: any registered or
\* unregistered id as target and as parent, with and without a root id
\* supplied by the caller (one the allocator will issue too), all within one
\* millisecond.
TreeCalls ==
    [maxNextId |-> MaxNextId,
     ids |-> Issued(MaxNextId),
     rootFolderIds |-> {undefined, Str("2")},
     createNames |-> {"a"},
     updateNames |-> {undefined},
     createContents |-> {undefined},
     updateContents |-> {undefined},
     parentIds |-> {undefined} \cup {Str(id) : id \in Issued(MaxNextId)},
     advances |-> {0}]

\* ------------------------------------------------------------------------
\* Actions: one per public operation, over the calls of a workload
\* ------------------------------------------------------------------------

Call(op, id, r) ==
    /\ nextId' = r.s.nextId
    /\ now' = r.s.now
    /\ heap' = Collect(r.s)
    /\ objects' = r.s.objects
    /\ parents' = r.s.parents
    /\ root' = r.s.root
    /\ ever' = IF op = "constructor" THEN DOMAIN r.s.objects
               ELSE ever \cup DOMAIN r.s.objects
    /\ last' = [op |-> op, id |-> id, error |-> r.error, result |-> r.result]

\* store = new ObjectStore({ rootFolderId }): the store under test is
\* replaced, the module counter is not
Construct(calls) ==
    /\ nextId < calls.maxNextId
    /\ \E rootFolderId \in calls.rootFolderIds :
       \E ticks \in TickSeqs(constructor(State, <<>>, rootFolderId).s.reads,
                             calls.advances) :
          Call("constructor", rootFolderId,
               constructor(State, ticks, rootFolderId))

CreateFile(calls) ==
    \E name \in calls.createNames, parentId \in calls.parentIds,
       content \in calls.createContents :
       \E ticks \in TickSeqs(createFile(State, <<>>, name, parentId,
                                        content).s.reads, calls.advances) :
          LET r == createFile(State, ticks, name, parentId, content)
          IN  /\ r.s.nextId <= calls.maxNextId
              /\ Call("createFile", undefined, r)

GetFile(calls) ==
    \E id \in calls.ids :
        Call("getFile", Str(id), getFile(State, id))

GetFileContent(calls) ==
    \E id \in calls.ids :
        Call("getFileContent", Str(id), getFileContent(State, id))

UpdateFile(calls) ==
    \E id \in calls.ids, name \in calls.updateNames,
       content \in calls.updateContents, parentId \in calls.parentIds :
       \E ticks \in TickSeqs(updateFile(State, <<>>, id, name, content,
                                        parentId).s.reads, calls.advances) :
          Call("updateFile", Str(id),
               updateFile(State, ticks, id, name, content, parentId))

DeleteFile(calls) ==
    \E id \in calls.ids :
       \E ticks \in TickSeqs(deleteFile(State, <<>>, id).s.reads,
                             calls.advances) :
          Call("deleteFile", Str(id), deleteFile(State, ticks, id))

CreateFolder(calls) ==
    \E name \in calls.createNames, parentId \in calls.parentIds :
       \E ticks \in TickSeqs(createFolder(State, <<>>, name,
                                          parentId).s.reads,
                             calls.advances) :
          LET r == createFolder(State, ticks, name, parentId)
          IN  /\ r.s.nextId <= calls.maxNextId
              /\ Call("createFolder", undefined, r)

GetFolder(calls) ==
    \E id \in calls.ids :
        Call("getFolder", Str(id), getFolder(State, id))

UpdateFolder(calls) ==
    \E id \in calls.ids, name \in calls.updateNames,
       parentId \in calls.parentIds :
       \E ticks \in TickSeqs(updateFolder(State, <<>>, id, name,
                                          parentId).s.reads,
                             calls.advances) :
          Call("updateFolder", Str(id),
               updateFolder(State, ticks, id, name, parentId))

DeleteFolder(calls) ==
    \E id \in calls.ids :
       \E ticks \in TickSeqs(deleteFolder(State, <<>>, id, 1).s.reads,
                             calls.advances) :
          Call("deleteFolder", Str(id), deleteFolder(State, ticks, id, 1))

CopyFile(calls) ==
    \E id \in calls.ids, name \in calls.copyNames,
       parentId \in calls.parentIds :
       LET r == copyFile(State, <<>>, id, name, parentId)
       IN  /\ r.s.nextId <= calls.maxNextId
           /\ Call("copyFile", Str(id), r)

CopyFolder(calls) ==
    \E id \in calls.ids, name \in calls.copyNames,
       parentId \in calls.parentIds :
       LET r == copyFolder(State, <<>>, id, name, parentId)
       IN  /\ r.s.nextId <= calls.maxNextId
           /\ Call("copyFolder", Str(id), r)

\* the module has just been loaded and the first store is constructed
Loaded(calls) ==
    \E rootFolderId \in calls.rootFolderIds :
    \E ticks \in {t \in [1..2 -> calls.advances] : Sum(t) <= MaxTime} :
       LET loaded == [nextId |-> 0, now |-> 0, reads |-> 0, heap |-> <<>>,
                      objects |-> <<>>, parents |-> <<>>, root |-> NoRef]
           r == constructor(loaded, ticks, rootFolderId)
       IN  /\ nextId = r.s.nextId
           /\ now = r.s.now
           /\ heap = Collect(r.s)
           /\ objects = r.s.objects
           /\ parents = r.s.parents
           /\ root = r.s.root
           /\ ever = DOMAIN r.s.objects
           /\ last = [op |-> "constructor", id |-> rootFolderId,
                      error |-> r.error, result |-> r.result]

\* the same workload for a store constructed without a root id
DefaultRootCalls == [TreeCalls EXCEPT !.rootFolderIds = {undefined}]

\* The calls of a workload that updates entries: every combination of a
\* name, a content and a parent, absent, empty or not, while the clock runs.
UpdateCalls ==
    [maxNextId |-> MaxUpdateNextId,
     ids |-> Issued(MaxUpdateNextId),
     rootFolderIds |-> {undefined},
     createNames |-> {"a"},
     updateNames |-> {undefined, Str(""), Str("b")},
     createContents |-> {undefined, Text(<<104, 105>>)},
     updateContents |-> {undefined, Text(<<>>), Buffer(<<1, 2, 3>>)},
     parentIds |-> {undefined, Str("")}
                       \cup {Str(id) : id \in Issued(MaxUpdateNextId)},
     advances |-> {0, 1}]

\* The calls of a workload that lets the clock run while entries are
\* created, moved and deleted: the clock may advance at every read.
ClockCalls ==
    [maxNextId |-> MaxUpdateNextId,
     ids |-> Issued(MaxUpdateNextId),
     rootFolderIds |-> {undefined},
     createNames |-> {"a"},
     updateNames |-> {undefined},
     createContents |-> {undefined},
     updateContents |-> {undefined},
     parentIds |-> {undefined}
                       \cup {Str(id) : id \in Issued(MaxUpdateNextId)},
     advances |-> {0, 1}]

\* The calls of a workload that exercises the content of files: files are
\* created without content and with text of which some code units take more
\* than one byte, and are renamed, moved and given other content, all within
\* one millisecond.
ContentCalls ==
    [maxNextId |-> MaxUpdateNextId,
     ids |-> Issued(MaxUpdateNextId),
     rootFolderIds |-> {undefined},
     createNames |-> {"a"},
     updateNames |-> {undefined, Str("b")},
     createContents |-> {undefined, Text(<<104, 233>>)},
     updateContents |-> {undefined, Text(<<>>), Buffer(<<1, 2, 3>>)},
     parentIds |-> {undefined}
                       \cup {Str(id) : id \in Issued(MaxUpdateNextId)},
     advances |-> {0}]

\* The calls of a workload that copies entries: files with and without
\* content and folders are created, deleted and copied in one store, with and without
\* a new name and a target parent, all within one millisecond.
CopyCalls ==
    [maxNextId |-> MaxNextId,
     ids |-> Issued(MaxNextId),
     rootFolderIds |-> {undefined},
     createNames |-> {"a"},
     updateNames |-> {undefined},
     createContents |-> {undefined, Text(<<104, 233>>)},
     updateContents |-> {undefined},
     parentIds |-> {undefined} \cup {Str(id) : id \in Issued(MaxNextId)},
     copyNames |-> {undefined, Str("b")},
     advances |-> {0}]

\* The calls of a workload that stamps entries while the clock runs: entries
\* are created and deleted in one store, every update renames the entry and
\* moves it (under the root "0" or under the first entry created, "1") and
\* every file update sets its content too, name and content to the value the
\* entry already has (the setters stamp it all the same), and the clock may
\* advance at every read.
StampCalls ==
    [maxNextId |-> MaxUpdateNextId,
     ids |-> Issued(MaxUpdateNextId),
     rootFolderIds |-> {undefined},
     createNames |-> {"a"},
     updateNames |-> {Str("a")},
     createContents |-> {Buffer(<<1, 2, 3>>)},
     updateContents |-> {Buffer(<<1, 2, 3>>)},
     parentIds |-> {Str("0"), Str("1")},
     advances |-> {0, 1}]

Init == Loaded(TreeCalls)

Next ==
    \/ Construct(TreeCalls)
    \/ CreateFile(TreeCalls)
    \/ GetFile(TreeCalls)
    \/ GetFileContent(TreeCalls)
    \/ UpdateFile(TreeCalls)
    \/ DeleteFile(TreeCalls)
    \/ CreateFolder(TreeCalls)
    \/ GetFolder(TreeCalls)
    \/ UpdateFolder(TreeCalls)
    \/ DeleteFolder(TreeCalls)

Spec == Init /\ [][Next]_vars

InitDefaultRoot == Loaded(DefaultRootCalls)

NextDefaultRoot ==
    \/ Construct(DefaultRootCalls)
    \/ CreateFile(DefaultRootCalls)
    \/ GetFile(DefaultRootCalls)
    \/ GetFileContent(DefaultRootCalls)
    \/ UpdateFile(DefaultRootCalls)
    \/ DeleteFile(DefaultRootCalls)
    \/ CreateFolder(DefaultRootCalls)
    \/ GetFolder(DefaultRootCalls)
    \/ UpdateFolder(DefaultRootCalls)
    \/ DeleteFolder(DefaultRootCalls)

SpecDefaultRoot == InitDefaultRoot /\ [][NextDefaultRoot]_vars

InitUpdate == Loaded(UpdateCalls)

NextUpdate ==
    \/ Construct(UpdateCalls)
    \/ CreateFile(UpdateCalls)
    \/ GetFile(UpdateCalls)
    \/ GetFileContent(UpdateCalls)
    \/ UpdateFile(UpdateCalls)
    \/ DeleteFile(UpdateCalls)
    \/ CreateFolder(UpdateCalls)
    \/ GetFolder(UpdateCalls)
    \/ UpdateFolder(UpdateCalls)
    \/ DeleteFolder(UpdateCalls)

SpecUpdate == InitUpdate /\ [][NextUpdate]_vars

InitContent == Loaded(ContentCalls)

NextContent ==
    \/ Construct(ContentCalls)
    \/ CreateFile(ContentCalls)
    \/ GetFile(ContentCalls)
    \/ GetFileContent(ContentCalls)
    \/ UpdateFile(ContentCalls)
    \/ DeleteFile(ContentCalls)
    \/ CreateFolder(ContentCalls)
    \/ GetFolder(ContentCalls)
    \/ UpdateFolder(ContentCalls)
    \/ DeleteFolder(ContentCalls)

SpecContent == InitContent /\ [][NextContent]_vars

InitMove == Loaded(DefaultRootCalls)

\* the calls that change the tree of one store with a generated root id:
\* creates, moves and deletes, no reads and no second store
NextMove ==
    \/ CreateFile(DefaultRootCalls)
    \/ UpdateFile(DefaultRootCalls)
    \/ DeleteFile(DefaultRootCalls)
    \/ CreateFolder(DefaultRootCalls)
    \/ UpdateFolder(DefaultRootCalls)
    \/ DeleteFolder(DefaultRootCalls)

SpecMove == InitMove /\ [][NextMove]_vars

InitStamp == Loaded(StampCalls)

NextStamp ==
    \/ CreateFile(StampCalls)
    \/ UpdateFile(StampCalls)
    \/ DeleteFile(StampCalls)
    \/ CreateFolder(StampCalls)
    \/ UpdateFolder(StampCalls)
    \/ DeleteFolder(StampCalls)

SpecStamp == InitStamp /\ [][NextStamp]_vars

InitCopy == Loaded(CopyCalls)

NextCopy ==
    \/ CreateFile(CopyCalls)
    \/ DeleteFile(CopyCalls)
    \/ CreateFolder(CopyCalls)
    \/ DeleteFolder(CopyCalls)
    \/ CopyFile(CopyCalls)
    \/ CopyFolder(CopyCalls)

SpecCopy == InitCopy /\ [][NextCopy]_vars

InitClock == Loaded(ClockCalls)

NextClock ==
    \/ Construct(ClockCalls)
    \/ CreateFile(ClockCalls)
    \/ GetFile(ClockCalls)
    \/ GetFileContent(ClockCalls)
    \/ UpdateFile(ClockCalls)
    \/ DeleteFile(ClockCalls)
    \/ CreateFolder(ClockCalls)
    \/ GetFolder(ClockCalls)
    \/ UpdateFolder(ClockCalls)
    \/ DeleteFolder(ClockCalls)

SpecClock == InitClock /\ [][NextClock]_vars

\* ------------------------------------------------------------------------
\* Vocabulary of the properties
\* ------------------------------------------------------------------------

Registered == DOMAIN objects

IsRegisteredFile(id) == id \in Registered /\ heap[objects[id]].type = "file"

IsRegisteredFolder(id) ==
    id \in Registered /\ heap[objects[id]].type = "folder"

\* the id of the parent the parent map gives to id, if it gives one
ParentLink(id) ==
    IF MapGet(parents, id) = NoRef THEN {} ELSE {heap[parents[id]].id}

RECURSIVE Climb(_, _)
Climb(ids, n) ==
    IF n = 0 THEN ids
    ELSE Climb(ids \cup UNION {ParentLink(i) : i \in ids}, n - 1)

\* every id reached from id by following parent links, one or more times
Ancestors(id) == Climb(ParentLink(id), Cardinality(DOMAIN parents))

\* the call r left the store, the clock aside, as it is in this state
LeavesStoreUnchanged(r) ==
    /\ r.s.nextId = nextId
    /\ r.s.objects = objects
    /\ r.s.parents = parents
    /\ r.s.root = root
    /\ Collect(r.s) = heap

Failed(r) == r.error # NoError

\* the arguments every state is probed with: ids that are or could be
\* registered and one that never is, and for each optional argument its
\* absence, the empty string and a value
ProbeIds == Issued(MaxNextId) \cup {"nope"}

ProbeNames == {undefined, Str(""), Str("b")}

ProbeContents == {undefined, Text(<<>>), Buffer(<<1, 2, 3>>)}

ProbeParentIds == {undefined, Str("")} \cup {Str(id) : id \in ProbeIds}

\* the clock stands still during the call, or advances at its every read
ProbeTicks == {<<>>, <<1, 1, 1, 1>>}

\* ------------------------------------------------------------------------
\* Properties
\* ------------------------------------------------------------------------

\* C1: the parent relation is acyclic: following parent links from any
\* registered entry never leads back to that entry, whatever operations
\* (updateFolder onto the folder itself or a descendant included) were called.
C1_ParentRelationAcyclic ==
    \A id \in Registered : id \notin Ancestors(id)

\* C2: in every reachable state exactly one registered entry has no parent,
\* and it is the root folder created at construction.
C2_ExactlyOneRoot ==
    /\ {id \in Registered : MapGet(parents, id) = NoRef} = {heap[root].id}
    /\ MapGet(objects, heap[root].id) = root

\* C3: every registered non-root entry has a parent in the parent map, and
\* that parent is a registered entry of kind folder.
C3_ParentIsRegisteredFolder ==
    \A id \in Registered :
        objects[id] # root =>
            LET parent == MapGet(parents, id)
            IN  /\ parent # NoRef
                /\ heap[parent].type = "folder"
                /\ MapGet(objects, heap[parent].id) = parent

\* C4: every id returned by createFile/createFolder differs from the id of
\* every entry that is or ever was registered in the store, the root with a
\* caller-supplied id included.
C4_CreatedIdIsFresh ==
    [][(/\ last'.op \in {"createFile", "createFolder"}
        /\ last'.error = NoError) => last'.result.id \notin ever]_vars

\* C5: an updateFile or updateFolder that fails leaves the store exactly as
\* it was (names, contents, parents, child lists, modified_at of every
\* entry), for every combination of name, content and parentId.
C5_FailedUpdateChangesNothing ==
    [][(/\ last'.op \in {"updateFile", "updateFolder"}
        /\ last'.error # NoError)
       => UNCHANGED <<nextId, heap, objects, parents, root>>]_vars

\* C6: a deleteFile/deleteFolder call either completes, and its target is
\* unregistered, or raises an error and has removed nothing: the store is as
\* it was before the call.
C6_DeleteCompletesOrChangesNothing ==
    [][last'.op \in {"deleteFile", "deleteFolder"}
       => IF last'.error = NoError
          THEN last'.id.v \notin DOMAIN objects'
          ELSE UNCHANGED <<nextId, heap, objects, parents, root>>]_vars

\* C7: every failure of a public operation is a NotFound or a WrongKind.
C7_OnlyTaxonomyErrors ==
    last.error.kind \in {"none", "NotFound", "WrongKind"}


\* the id of the folder a create call without or with parentId addresses
TargetParent(parentId) ==
    IF parentId = undefined THEN heap[root].id ELSE parentId.v

\* C8: createFile or createFolder fails with NotFound when its parent id is
\* not registered and with WrongKind when it names a file, and then nothing
\* is registered, no entry changes and no id is consumed.
C8_FailedCreateChangesNothing ==
    \A parentId \in ProbeParentIds :
        LET refusal ==
                IF TargetParent(parentId) \notin Registered
                THEN {"NotFound"}
                ELSE IF IsRegisteredFile(TargetParent(parentId))
                THEN {"WrongKind"}
                ELSE {}
            Refused(r, kind) ==
                r.error.kind = kind /\ LeavesStoreUnchanged(r)
        IN  \A kind \in refusal, ticks \in ProbeTicks :
               /\ Refused(createFolder(State, ticks, "a", parentId), kind)
               /\ \A content \in ProbeContents :
                     Refused(createFile(State, ticks, "a", parentId,
                                        content), kind)

\* a create call has just been refused because its parent is a file, while
\* another id is not registered and the allocator could still issue ids
C8_Witness ==
    /\ last.op \in {"createFile", "createFolder"}
    /\ last.error.kind = "WrongKind"
    /\ nextId < MaxNextId
    /\ \E id \in Issued(MaxNextId) : id \notin Registered

\* C9: the file operations fail with NotFound on an id that is not
\* registered and with WrongKind on the id of a folder; the folder operations
\* fail with NotFound on an id that is not registered and with WrongKind on
\* the id of a file; whatever the other arguments are.
C9_TargetValidation ==
    \A id \in ProbeIds :
        LET fileExpected ==
                IF id \notin Registered THEN {"NotFound"}
                ELSE IF IsRegisteredFolder(id) THEN {"WrongKind"}
                ELSE {}
            folderExpected ==
                IF id \notin Registered THEN {"NotFound"}
                ELSE IF IsRegisteredFile(id) THEN {"WrongKind"}
                ELSE {}
            Meets(r, expected) == \A kind \in expected : r.error.kind = kind
        IN  /\ Meets(getFile(State, id), fileExpected)
            /\ Meets(getFileContent(State, id), fileExpected)
            /\ Meets(getFolder(State, id), folderExpected)
            /\ \A ticks \in ProbeTicks :
                  /\ Meets(deleteFile(State, ticks, id), fileExpected)
                  /\ Meets(deleteFolder(State, ticks, id, 1), folderExpected)
                  /\ \A name \in ProbeNames,
                        parentId \in {undefined, Str("nope"),
                                      Str(heap[root].id)} :
                        /\ Meets(updateFolder(State, ticks, id, name,
                                              parentId), folderExpected)
                        /\ \A content \in ProbeContents :
                              Meets(updateFile(State, ticks, id, name,
                                               content, parentId),
                                    fileExpected)

\* a folder operation has just been refused on the id of a file, while some
\* id is not registered and some folder is
C9_Witness ==
    /\ last.op \in {"getFolder", "updateFolder", "deleteFolder"}
    /\ last.error.kind = "WrongKind"
    /\ IsRegisteredFile(last.id.v)
    /\ \E id \in ProbeIds : id \notin Registered
    /\ \E id \in ProbeIds : IsRegisteredFolder(id)

\* the ids that were registered in this store and are not any more
Removed == ever \ Registered

\* C10: an id that deleteFile/deleteFolder has removed stays absent in every
\* later state of the store: no later operation registers it again.
C10_RemovedIdStaysAbsent ==
    [][last'.op # "constructor"
       => \A id \in Removed : id \notin DOMAIN objects']_vars

\* the ids of a folder and of every entry below it, following child lists
SubtreeIds(folder) == {heap[e].id : e \in Reachable(heap, {folder})}

\* C11: after a successful deleteFolder(id) the folder and every entry that
\* was below it at any depth are unregistered, getFile and getFolder on each
\* of their ids fail with NotFound, and every entry outside that subtree is
\* still registered.
C11_DeleteFolderRemovesSubtree ==
    \A id \in Registered, ticks \in ProbeTicks :
        LET r == deleteFolder(State, ticks, id, 1)
            subtree == Reachable(heap, {objects[id]})
        IN  r.error = NoError =>
               /\ \A d \in SubtreeIds(objects[id]) :
                     /\ d \notin DOMAIN r.s.objects
                     /\ getFile(r.s, d).error.kind = "NotFound"
                     /\ getFolder(r.s, d).error.kind = "NotFound"
               /\ \A k \in Registered :
                     objects[k] \notin subtree =>
                        /\ k \in DOMAIN r.s.objects
                        /\ r.s.objects[k] = objects[k]

\* deleteFolder succeeds on a folder that is not empty and unregisters it
\* with what it holds, while an entry outside it stays registered
C11_Witness ==
    \E id \in Registered :
        LET r == deleteFolder(State, <<>>, id, 1)
        IN  /\ IsRegisteredFolder(id)
            /\ heap[objects[id]].entries # <<>>
            /\ r.error = NoError
            /\ Cardinality(DOMAIN r.s.objects) + 2 <= Cardinality(Registered)
            /\ DOMAIN r.s.objects # {}

\* the references a child list holds
Elements(entries) == {entries[i] : i \in 1..Len(entries)}

\* C12: after a successful updateFile/updateFolder whose parentId names a
\* registered folder other than the entry's current parent, the record has
\* parent_id equal to the new parent, the old parent's entries no longer
\* contain the entry and are exactly one shorter, and the new parent's
\* entries contain the entry and are exactly one longer.
C12_MoveRelinksEntry ==
    \A id \in Registered, parentId \in Registered :
        LET entry == objects[id]
            old == MapGet(parents, id)
            new == objects[parentId]
            Moved(r) ==
                r.error = NoError =>
                   /\ r.result.parent_id = Str(parentId)
                   /\ entry \notin Elements(r.s.heap[old].entries)
                   /\ Len(r.s.heap[old].entries) = Len(heap[old].entries) - 1
                   /\ entry \in Elements(r.s.heap[new].entries)
                   /\ Len(r.s.heap[new].entries) = Len(heap[new].entries) + 1
        IN  (IsRegisteredFolder(parentId) /\ new # old) =>
               \A name \in {undefined, Str("b")} :
                  \A r \in {updateFolder(State, <<>>, id, name,
                                         Str(parentId))}
                           \cup {updateFile(State, <<>>, id, name, content,
                                            Str(parentId)) :
                                    content \in {undefined,
                                                 Buffer(<<1, 2, 3>>)}} :
                     Moved(r)

\* updateFile succeeds in moving a file out of a folder that holds it into
\* another registered folder
C12_Witness ==
    \E id \in Registered, parentId \in Registered :
        /\ IsRegisteredFile(id)
        /\ IsRegisteredFolder(parentId)
        /\ MapGet(parents, id) \notin {NoRef, objects[parentId]}
        /\ objects[id] \in Elements(heap[parents[id]].entries)
        /\ LET r == updateFile(State, <<>>, id, undefined, undefined,
                               Str(parentId))
           IN  /\ r.error = NoError
               /\ r.result.parent_id = Str(parentId)

C14_CreatedAtEqualsModifiedAt ==
    (/\ last.op \in {"createFile", "createFolder"}
     /\ last.error = NoError)
    => last.result.created_at = last.result.modified_at

\* an update call supplies at least one of its three optional arguments, and
\* not an empty one
Supplied(name, content, parentId) ==
    Truthy(name) \/ TruthyContent(content) \/ Truthy(parentId)

\* the entry registered under id after the step has a modified_at that is
\* later than the one it had before the step and differs from its created_at
ModifiedAtAdvanced(id) ==
    /\ heap'[objects'[id]].modifiedAt > heap[objects[id]].modifiedAt
    /\ heap'[objects'[id]].modifiedAt # heap'[objects'[id]].createdAt

\* C15: after any successful updateFile/updateFolder that supplies a name, a
\* content or a parentId (none of them empty), the entry's modified_at is
\* strictly greater than before the call and no longer equals its created_at.
C15_UpdateAdvancesModifiedAt ==
    [][\A id \in UpdateCalls.ids, name \in UpdateCalls.updateNames,
          parentId \in UpdateCalls.parentIds :
          /\ \A ticks \in TickSeqs(updateFolder(State, <<>>, id, name,
                                                parentId).s.reads,
                                   UpdateCalls.advances) :
                LET r == updateFolder(State, ticks, id, name, parentId)
                IN  (/\ Supplied(name, undefined, parentId)
                     /\ r.error = NoError
                     /\ Call("updateFolder", Str(id), r))
                    => ModifiedAtAdvanced(id)
          /\ \A content \in UpdateCalls.updateContents :
             \A ticks \in TickSeqs(updateFile(State, <<>>, id, name, content,
                                              parentId).s.reads,
                                   UpdateCalls.advances) :
                LET r == updateFile(State, ticks, id, name, content, parentId)
                IN  (/\ Supplied(name, content, parentId)
                     /\ r.error = NoError
                     /\ Call("updateFile", Str(id), r))
                    => ModifiedAtAdvanced(id)]_vars

\* no entry the id map of s holds was created after it was last modified
CreatedNotAfterModified(s) ==
    \A id \in DOMAIN s.objects :
        s.heap[s.objects[id]].createdAt <= s.heap[s.objects[id]].modifiedAt

\* C16: in every reachable state and for every registered entry, created_at
\* is not later than modified_at, with a clock that never goes backwards; and
\* no rename and no content update, at whichever reads the clock advances
\* during it, leads to a state where this fails.
C16_CreatedNotAfterModified ==
    /\ CreatedNotAfterModified(State)
    /\ \A id \in Registered, ticks \in ProbeTicks \cup {<<0, 1>>} :
          /\ CreatedNotAfterModified(
                 updateFolder(State, ticks, id, Str("b"), undefined).s)
          /\ CreatedNotAfterModified(
                 updateFile(State, ticks, id, Str("b"), Buffer(<<1, 2, 3>>),
                            undefined).s)

\* the clock has advanced and a registered entry other than the root has been
\* modified after it was created, while the root has not
C16_Witness ==
    /\ now > 0
    /\ heap[root].createdAt = heap[root].modifiedAt
    /\ \E id \in Registered :
          /\ objects[id] # root
          /\ heap[objects[id]].createdAt < heap[objects[id]].modifiedAt

\* C17: when an entry is attached to a folder, by a create or by a move, the
\* folder's modified_at is set to the current time and the entry's
\* modified_at to the same value; when an entry is detached, by a delete or
\* by a move, the former parent's modified_at is set to the current time.
\* Right after a create or a move the entry's modified_at equals that of its
\* new parent, and after a move the old parent's modified_at is not earlier
\* than before.
C17_AttachAndDetachTouchParent ==
    /\ \A parentId \in ProbeParentIds, ticks \in ProbeTicks :
          \A r \in {createFolder(State, ticks, "a", parentId),
                    createFile(State, ticks, "a", parentId, undefined)} :
             r.error = NoError =>
                LET parent == objects[TargetParent(parentId)]
                    entry == r.s.objects[r.result.id]
                IN  /\ r.s.heap[parent].modifiedAt = r.s.now
                    /\ r.s.heap[entry].modifiedAt = r.s.now
    /\ \A id \in Registered, ticks \in ProbeTicks :
          LET entry == objects[id]
              old == parents[id]
          IN  /\ \A r \in {deleteFile(State, ticks, id),
                           deleteFolder(State, ticks, id, 1)} :
                    r.error = NoError => r.s.heap[old].modifiedAt = r.s.now
              /\ \A parentId \in Registered :
                    \A r \in {updateFolder(State, ticks, id, undefined,
                                           Str(parentId)),
                              updateFile(State, ticks, id, undefined,
                                         undefined, Str(parentId))} :
                       r.error = NoError =>
                          LET new == objects[parentId]
                          IN  /\ r.s.heap[new].modifiedAt = r.s.now
                              /\ r.s.heap[entry].modifiedAt = r.s.now
                              /\ r.s.heap[old].modifiedAt
                                    >= heap[old].modifiedAt
                              /\ old \notin {new, entry} =>
                                    r.s.heap[old].modifiedAt
                                       = now + Tick(ticks, 1)

\* a file can be moved from the folder that holds it into another folder
\* while the clock advances between the detach and the attach
C17_Witness ==
    \E id \in Registered, parentId \in Registered :
        LET r == updateFile(State, <<1, 1, 1, 1>>, id, undefined, undefined,
                            Str(parentId))
        IN  /\ IsRegisteredFile(id)
            /\ IsRegisteredFolder(parentId)
            /\ MapGet(parents, id) \notin {NoRef, objects[parentId]}
            /\ r.error = NoError
            /\ r.s.heap[parents[id]].modifiedAt
                  < r.s.heap[objects[parentId]].modifiedAt

\* C18: after a successful updateFile that supplies content (text, empty or
\* not, or binary) and no parentId, the modified_at of the file's parent
\* folder equals the file's new modified_at, while the parent's child list
\* (membership and order) is unchanged.
C18_ContentUpdateTouchesParent ==
    [][\A id \in UpdateCalls.ids, name \in UpdateCalls.updateNames,
          content \in UpdateCalls.updateContents \ {undefined} :
          \A ticks \in TickSeqs(updateFile(State, <<>>, id, name, content,
                                           undefined).s.reads,
                                UpdateCalls.advances) :
             LET r == updateFile(State, ticks, id, name, content, undefined)
             IN  (r.error = NoError /\ Call("updateFile", Str(id), r))
                 => /\ heap'[parents'[id]].modifiedAt
                          = heap'[objects'[id]].modifiedAt
                    /\ heap'[parents'[id]].entries
                          = heap[parents[id]].entries]_vars

\* C19: a successful updateFile/updateFolder that supplies only a name
\* changes nothing but that entry's name and modified_at: its parent link,
\* its parent's modified_at and child order, its content, its own children
\* and every other entry are unchanged, and no id is consumed.  A name that is
\* not empty becomes the entry's name, and the entry's modified_at the time
\* of the call.
C19_RenameChangesOnlyTheEntry ==
    \A id \in Registered, ticks \in ProbeTicks,
       name \in {Str(""), Str("b")} :
        \A r \in {updateFolder(State, ticks, id, name, undefined),
                  updateFile(State, ticks, id, name, undefined, undefined)} :
           r.error = NoError =>
              LET entry == objects[id]
                  after == r.s.heap[entry]
              IN  /\ r.s.nextId = nextId
                  /\ r.s.objects = objects
                  /\ r.s.parents = parents
                  /\ r.s.root = root
                  /\ r.s.heap = [heap EXCEPT
                                    ![entry].name = after.name,
                                    ![entry].modifiedAt = after.modifiedAt]
                  /\ Truthy(name) =>
                        /\ after.name = name.v
                        /\ after.modifiedAt = r.s.now
                        /\ r.result.name = name.v

\* a folder that has a parent and a child can be renamed while the clock
\* advances
C19_Witness ==
    \E id \in Registered :
        LET r == updateFolder(State, <<1, 1, 1, 1>>, id, Str("b"), undefined)
        IN  /\ IsRegisteredFolder(id)
            /\ MapGet(parents, id) # NoRef
            /\ heap[objects[id]].entries # <<>>
            /\ r.error = NoError
            /\ r.result.name = "b"
            /\ r.s.heap[objects[id]].modifiedAt
                  > r.s.heap[parents[id]].modifiedAt

\* the record lists the children of the folder registered under id in state
\* s, in the order of its child list and no other entry, and no element of
\* the list has an entries field
ListsDirectChildren(s, id, record) ==
    LET children == s.heap[s.objects[id]].entries
    IN  /\ Len(record.entries) = Len(children)
        /\ \A i \in 1..Len(children) :
              /\ record.entries[i].id = s.heap[children[i]].id
              /\ record.entries[i].name = s.heap[children[i]].name
              /\ record.entries[i].type = s.heap[children[i]].type
              /\ "entries" \notin DOMAIN record.entries[i]
        /\ {record.entries[i].id : i \in 1..Len(children)}
              = {k \in DOMAIN s.objects :
                    MapGet(s.parents, k) = s.objects[id]}

\* C20: for every folder in every reachable state, the record returned by
\* getFolder, and by createFolder and updateFolder, lists exactly the folder's
\* direct children in entries, and no element of entries has an entries field
\* of its own, even when that child is a folder that is not empty.
C20_EntriesAreOneLevelDeep ==
    /\ \A id \in Registered :
          /\ \A r \in {getFolder(State, id)} :
                r.error = NoError => ListsDirectChildren(State, id, r.result)
          /\ \A parentId \in {undefined} \cup {Str(k) : k \in Registered} :
                \A r \in {updateFolder(State, <<>>, id, Str("b"),
                                       parentId)} :
                   r.error = NoError => ListsDirectChildren(r.s, id, r.result)
    /\ \A parentId \in ProbeParentIds :
          \A r \in {createFolder(State, <<>>, "a", parentId)} :
             r.error = NoError =>
                ListsDirectChildren(r.s, r.result.id, r.result)

\* getFolder succeeds on a folder one of whose children is a folder that is
\* not empty
C20_Witness ==
    \E id \in Registered :
        /\ getFolder(State, id).error = NoError
        /\ \E i \in 1..Len(heap[objects[id]].entries) :
              LET child == heap[heap[objects[id]].entries[i]]
              IN  /\ child.type = "folder"
                  /\ child.entries # <<>>
                  /\ child.id # id
                  /\ getFolder(State, id).result.entries[i].id = child.id

\* after the step, the entry registered under id is the last element of the
\* child list of the root folder
LastChildOfRoot(id) ==
    /\ id \in DOMAIN objects'
    /\ heap'[root'].entries # <<>>
    /\ heap'[root'].entries[Len(heap'[root'].entries)] = objects'[id]

\* C21: createFile/createFolder called without parentId registers the new
\* entry as the last child of the store's root folder and returns a record
\* whose parent_id is the root's id, the one the caller supplied at
\* construction when there is one.
C21_CreateDefaultsToRoot ==
    [][/\ \A r \in {createFolder(State, <<>>, "a", undefined)} :
             Call("createFolder", undefined, r) =>
                /\ r.error = NoError
                /\ LastChildOfRoot(r.result.id)
                /\ r.result.parent_id = Str(heap[root].id)
       /\ \A r \in {createFile(State, <<>>, "a", undefined, undefined)} :
             Call("createFile", undefined, r) =>
                /\ r.error = NoError
                /\ LastChildOfRoot(r.result.id)
                /\ r.result.parent_id = Str(heap[root].id)]_vars

\* the store and the clock after the step
After ==
    [nextId |-> nextId', now |-> now', reads |-> 0, heap |-> heap',
     objects |-> objects', parents |-> parents', root |-> root']

\* C22: after a successful updateFile(id, {name, content}) every supplied
\* field is applied: getFile(id).name is the supplied name and
\* getFileContent(id) the supplied content, empty text and the empty name
\* included, and a field that was not supplied keeps its value.  The same
\* holds for the name of updateFolder.
C22_SuppliedFieldsAreApplied ==
    [][\A id \in UpdateCalls.ids, name \in UpdateCalls.updateNames :
          /\ \A content \in UpdateCalls.updateContents :
             \A ticks \in TickSeqs(updateFile(State, <<>>, id, name, content,
                                              undefined).s.reads,
                                   UpdateCalls.advances) :
                LET r == updateFile(State, ticks, id, name, content,
                                    undefined)
                IN  (r.error = NoError /\ Call("updateFile", Str(id), r))
                    => /\ getFile(After, id).result.name
                             = IF name = undefined
                               THEN getFile(State, id).result.name
                               ELSE name.v
                       /\ getFileContent(After, id).result
                             = IF content = undefined
                               THEN getFileContent(State, id).result
                               ELSE content
          /\ \A ticks \in TickSeqs(updateFolder(State, <<>>, id, name,
                                                undefined).s.reads,
                                   UpdateCalls.advances) :
                LET r == updateFolder(State, ticks, id, name, undefined)
                IN  (r.error = NoError /\ Call("updateFolder", Str(id), r))
                    => getFolder(After, id).result.name
                          = IF name = undefined
                            THEN getFolder(State, id).result.name
                            ELSE name.v]_vars

\* C23: content is stored verbatim: getFileContent on the id createFile
\* returned gives exactly the content supplied, text or binary, and no
\* content when none was supplied; and a rename or a move of the file, and any
\* call on another entry that leaves the file registered, does not change
\* what getFileContent returns.
C23_ContentIsStoredVerbatim ==
    /\ \A parentId \in ProbeParentIds,
          content \in ProbeContents \cup {Text(<<104, 233>>)} :
          \A r \in {createFile(State, <<>>, "a", parentId, content)} :
             r.error = NoError =>
                getFileContent(r.s, r.result.id) = Return(r.s, content)
    /\ \A id \in {k \in Registered : IsRegisteredFile(k)} :
          LET Kept(r) ==
                  MapGet(r.s.objects, id) = objects[id] =>
                     getFileContent(r.s, id)
                        = Return(r.s, getFileContent(State, id).result)
          IN  /\ \A name \in ProbeNames,
                    parentId \in {undefined} \cup {Str(k) : k \in Registered} :
                    \A r \in {updateFile(State, <<>>, id, name, undefined,
                                         parentId)} :
                       r.error = NoError => Kept(r)
              /\ \A other \in Registered \ {id} :
                    \A r \in {updateFile(State, <<>>, other, Str("b"),
                                         Buffer(<<4>>), Str(heap[root].id)),
                              updateFolder(State, <<>>, other, Str("b"),
                                           Str(heap[root].id)),
                              deleteFile(State, <<>>, other),
                              deleteFolder(State, <<>>, other, 1)} :
                       Kept(r)
              /\ \A r \in {createFile(State, <<>>, "a", undefined,
                                      Buffer(<<4>>)),
                           createFolder(State, <<>>, "a", undefined)} :
                    Kept(r)

\* a file that holds binary content, given to it by an update, can be renamed
\* and moved in one call and still returns that content
C23_Witness ==
    \E id \in Registered :
        LET r == updateFile(State, <<>>, id, Str("b"), undefined,
                            Str(heap[root].id))
        IN  /\ IsRegisteredFile(id)
            /\ heap[objects[id]].content = Buffer(<<1, 2, 3>>)
            /\ r.error = NoError
            /\ r.result.name = "b"
            /\ getFileContent(r.s, id).result = Buffer(<<1, 2, 3>>)

\* contents paired with the number of bytes each one occupies: no content,
\* the empty text, "h", "hé", the euro sign, one emoji written as a
\* surrogate pair, an empty buffer and a buffer of three bytes
SizeTable ==
    {<<undefined, 0>>,
     <<Text(<<>>), 0>>,
     <<Text(<<104>>), 1>>,
     <<Text(<<104, 233>>), 3>>,
     <<Text(<<8364>>), 3>>,
     <<Text(<<55357, 56832>>), 4>>,
     <<Buffer(<<>>), 0>>,
     <<Buffer(<<1, 2, 3>>), 3>>}

\* the byte count the table gives for a content
TableSize(content) == (CHOOSE row \in SizeTable : row[1] = content)[2]

\* C24: the size of every file record is 0 without content, the UTF-8 byte
\* length of text and the byte length of binary content, and it is the size of
\* the content the file holds now: of the content given at creation, of the
\* content an updateFile has just stored, and unchanged by a rename.
C24_SizeIsTheByteLengthOfTheContent ==
    /\ \A id \in {k \in Registered : IsRegisteredFile(k)} :
          /\ heap[objects[id]].content \in {row[1] : row \in SizeTable}
          /\ getFile(State, id).result.size
                = TableSize(getFileContent(State, id).result)
          /\ \A row \in SizeTable :
                \A r \in {updateFile(State, <<>>, id, undefined, row[1],
                                     undefined)} :
                   r.error = NoError =>
                      /\ r.result.size
                            = TableSize(getFileContent(r.s, id).result)
                      /\ getFile(r.s, id).result.size = r.result.size
                      /\ TruthyContent(row[1]) => r.result.size = row[2]
          /\ \A r \in {updateFile(State, <<>>, id, Str("b"), undefined,
                                  undefined)} :
                r.error = NoError =>
                   r.result.size = getFile(State, id).result.size
    /\ \A row \in SizeTable :
          \A r \in {createFile(State, <<>>, "a", undefined, row[1])} :
             r.error = NoError =>
                /\ r.result.size = row[2]
                /\ getFile(r.s, r.result.id).result.size = row[2]

\* a file holding the two-character text "hé" reports three bytes, and
\* four once an update has replaced its content by one emoji
C24_Witness ==
    \E id \in Registered :
        LET r == updateFile(State, <<>>, id, undefined,
                            Text(<<55357, 56832>>), undefined)
        IN  /\ IsRegisteredFile(id)
            /\ heap[objects[id]].content = Text(<<104, 233>>)
            /\ getFile(State, id).result.size = 3
            /\ r.error = NoError
            /\ r.result.size = 4

\* the record the store returns for a registered id
RecordOf(s, id) ==
    IF s.heap[s.objects[id]].type = "file"
    THEN getFile(s, id).result
    ELSE getFolder(s, id).result

\* in state s the record of id k shows the id, the kind and the creation time
\* that the entry registered under k has now
ShowsIdentity(s, k) ==
    \A record \in {RecordOf(s, k)} :
        /\ record.id = k
        /\ record.type = heap[objects[k]].type
        /\ record.created_at = toISOString(heap[objects[k]].createdAt)

\* every id registered now is, in state s, still the id of the same entry,
\* and its record shows the same id, kind and created_at as now
KeepsIdentity(s) ==
    \A k \in Registered :
        /\ MapGet(s.objects, k) = objects[k]
        /\ ShowsIdentity(s, k)

\* C25: the id, the kind and created_at of an entry never change while it is
\* registered: in every reachable state every registered entry carries the id
\* it is registered under, and no rename, content update or move, of it or of
\* another entry, successful or failed, with the clock advancing at its every
\* read, changes the id, kind or created_at of any registered entry.
C25_IdKindAndCreatedAtAreFixed ==
    /\ \A k \in Registered : heap[objects[k]].id = k /\ ShowsIdentity(State, k)
    /\ \A id \in Registered, ticks \in {<<1, 1, 1, 1>>},
          parentId \in {undefined} \cup {Str(k) : k \in Registered} :
          \A r \in {updateFolder(State, ticks, id, Str("b"), parentId),
                    updateFile(State, ticks, id, Str("b"),
                               Buffer(<<1, 2, 3>>), parentId)} :
             KeepsIdentity(r.s)

\* an entry created after the root can be renamed and moved while the clock
\* advances, and is then modified later than it was created
C25_Witness ==
    \E id \in Registered :
        \E r \in {updateFolder(State, <<1, 1, 1, 1>>, id, Str("b"),
                               Str(heap[root].id)),
                  updateFile(State, <<1, 1, 1, 1>>, id, Str("b"),
                             Buffer(<<1, 2, 3>>), Str(heap[root].id))} :
            /\ heap[objects[id]].createdAt > heap[root].createdAt
            /\ r.error = NoError
            /\ r.result.name = "b"
            /\ r.s.now > now
            /\ r.result.modified_at # r.result.created_at
            /\ r.result.created_at = RecordOf(State, id).created_at

\* C26: getFile, getFolder and getFileContent never modify the store: for
\* every id, registered or not, of a file or of a folder, the two Maps, the
\* root, every entry with its name, content, child order and dates, the id
\* counter and the clock are after the call what they were before it, whether
\* the call returned or threw.
C26_GetsLeaveTheStoreAlone ==
    \A id \in ProbeIds :
        \A r \in {getFile(State, id), getFolder(State, id),
                  getFileContent(State, id)} :
           /\ r.s.objects = objects
           /\ r.s.parents = parents
           /\ r.s.root = root
           /\ r.s.nextId = nextId
           /\ r.s.now = now
           /\ DOMAIN r.s.heap = DOMAIN heap
           /\ \A ref \in DOMAIN heap :
                 /\ r.s.heap[ref].name = heap[ref].name
                 /\ r.s.heap[ref].content = heap[ref].content
                 /\ r.s.heap[ref].entries = heap[ref].entries
                 /\ r.s.heap[ref].modifiedAt = heap[ref].modifiedAt
                 /\ r.s.heap[ref] = heap[ref]

\* the root holds a folder and then a file; each of the three reads succeeds on
\* an id of its kind, fails on an id of the other kind and on an id that is not
\* registered
C26_Witness ==
    \E file \in Registered, folder \in Registered :
        /\ IsRegisteredFile(file)
        /\ IsRegisteredFolder(folder)
        /\ heap[root].entries = <<objects[folder], objects[file]>>
        /\ getFile(State, file).error = NoError
        /\ getFileContent(State, file).error = NoError
        /\ getFolder(State, heap[root].id).error = NoError
        /\ Len(getFolder(State, heap[root].id).result.entries) = 2
        /\ Failed(getFile(State, folder))
        /\ Failed(getFolder(State, file))
        /\ Failed(getFileContent(State, "nope"))

\* the registered ids of folders and of files
Folders == {k \in Registered : IsRegisteredFolder(k)}

Files == {k \in Registered : IsRegisteredFile(k)}

RECURSIVE IsCopyOf(_, _, _, _)
IsCopyOf(s, copy, original, n) ==
    /\ n > 0
    /\ s.heap[copy].id \notin Registered
    /\ MapGet(s.objects, s.heap[copy].id) = copy
    /\ s.heap[copy].type = heap[original].type
    /\ s.heap[copy].content = heap[original].content
    /\ Len(s.heap[copy].entries) = Len(heap[original].entries)
    /\ \A i \in 1..Len(heap[original].entries) :
          LET c == s.heap[copy].entries[i]
              o == heap[original].entries[i]
          IN  /\ s.heap[c].name = heap[o].name
              /\ MapGet(s.parents, s.heap[c].id) = copy
              /\ IsCopyOf(s, c, o, n - 1)

\* the folder a copy of id is to go into: the one named, or else the one the
\* parent map gives for id
CopyTarget(id, parentId) ==
    IF parentId = undefined THEN MapGet(parents, id) ELSE objects[parentId.v]

\* C28: copyFolder on a registered folder, into a registered folder that is
\* not part of the subtree copied, deep-copies the subtree: it succeeds, the
\* copy and every copied descendant are registered under ids that were not
\* registered, one new entry for each entry of the subtree, each copied
\* folder has the children of its original, by number, name, kind and order,
\* at every depth, each copied child has the copy of its parent as parent,
\* and every entry of the original subtree is what and where it was.
C28_CopyFolderCopiesTheSubtree ==
    \A id \in Folders, name \in {undefined, Str("b")},
       parentId \in {undefined} \cup {Str(k) : k \in Folders} :
       LET subtree == Reachable(heap, {objects[id]})
           target == CopyTarget(id, parentId)
       IN  (target # NoRef /\ target \notin subtree) =>
           \A r \in {copyFolder(State, <<>>, id, name, parentId)} :
              /\ r.error = NoError
              /\ r.result.id \notin Registered
              /\ r.result.name = IF name = undefined
                                 THEN heap[objects[id]].name ELSE name.v
              /\ r.result.parent_id = Str(heap[target].id)
              /\ r.result = getFolder(r.s, r.result.id).result
              /\ IsCopyOf(r.s, r.s.objects[r.result.id], objects[id],
                          Cardinality(DOMAIN heap))
              /\ Cardinality(DOMAIN r.s.objects)
                    = Cardinality(Registered) + Cardinality(subtree)
              /\ \A e \in subtree :
                    /\ r.s.heap[e] = heap[e]
                    /\ MapGet(r.s.objects, heap[e].id)
                          = MapGet(objects, heap[e].id)
                    /\ MapGet(r.s.parents, heap[e].id)
                          = MapGet(parents, heap[e].id)

Occurrences(entries, e) ==
    Cardinality({i \in 1..Len(entries) : entries[i] = e})

\* the entry e is registered: the id map holds it under its id
IsRegisteredEntry(e) == MapGet(objects, heap[e].id) = e

\* C30: the two views of the tree agree in every reachable state: an entry e
\* occurs in the child sequence of a folder p, registered or held by the
\* store in any other way, if and only if e is registered and the parent map
\* sends the id of e to p, and then it occurs there once; so no child
\* sequence contains an entry that is not registered.
C30_ChildListsAgreeWithParentMap ==
    \A p \in DOMAIN heap, e \in DOMAIN heap :
        /\ Occurrences(heap[p].entries, e) <= 1
        /\ Occurrences(heap[p].entries, e) = 1
              <=> /\ IsRegisteredEntry(e)
                  /\ MapGet(parents, heap[e].id) = p
        /\ Occurrences(heap[p].entries, e) > 0 => IsRegisteredEntry(e)

\* an entry has just been moved out of the root into the folder that is
\* now the only child of the root
C30_Witness ==
    /\ last.op \in {"updateFile", "updateFolder"}
    /\ last.error = NoError
    /\ \E id \in Folders :
          /\ objects[id] # root
          /\ last.result.parent_id = Str(id)
          /\ Len(heap[objects[id]].entries) = 1
          /\ heap[root].entries = <<objects[id]>>

\* a child sequence without the entry e, the others in the order they have
Without(entries, e) ==
    LET keep(x) == x # e
    IN  SelectSeq(entries, keep)

C32_DeleteFolderTerminates ==
    \A id \in Folders :
        /\ deleteFolder(State, <<>>, id, 1).error # StackOverflowError
        /\ \A below \in Folders :
              objects[below] \in Elements(heap[objects[id]].entries)
                 => objects[id]
                       \notin Reachable(heap, {objects[below]})

\* a clock that advances at each of its reads, as many as a deleteFolder makes
\* on the largest tree: the modified_at an entry is left with is then the
\* moment Folder.remove took it out of its parent
DeleteTicks == [i \in 1..(MaxNextId + 1) |-> 1]

C34_DeleteFileRemovesOnlyTheFile ==
    \A id \in Files, ticks \in ProbeTicks :
        \A r \in {deleteFile(State, ticks, id)} :
           r.error = NoError =>
              LET e == objects[id]
                  old == parents[id]
              IN  /\ id \notin DOMAIN r.s.objects
                  /\ id \notin DOMAIN r.s.parents
                  /\ getFile(r.s, id).error.kind = "NotFound"
                  /\ r.s.heap[old].entries = Without(heap[old].entries, e)
                  /\ Len(r.s.heap[old].entries) = Len(heap[old].entries) - 1
                  /\ r.s.heap[old].modifiedAt = r.s.now
                  /\ r.s.heap[old]
                        = [heap[old] EXCEPT
                              !.entries = r.s.heap[old].entries,
                              !.modifiedAt = r.s.heap[old].modifiedAt]
                  /\ DOMAIN r.s.objects = Registered \ {id}
                  /\ DOMAIN r.s.parents = DOMAIN parents \ {id}
                  /\ \A k \in Registered \ {id} :
                        /\ r.s.objects[k] = objects[k]
                        /\ r.s.parents[k] = parents[k]
                  /\ \A ref \in DOMAIN heap \ {e, old} :
                        r.s.heap[ref] = heap[ref]
                  /\ r.s.nextId = nextId
                  /\ r.s.root = root

\* a file with content is the first of two children of the root, and
\* deleting it leaves the root with the second child alone
C34_Witness ==
    \E id \in Files, sibling \in Registered :
        \E r \in {deleteFile(State, <<1, 1, 1, 1>>, id)} :
            /\ heap[objects[id]].content = Text(<<104, 233>>)
            /\ heap[root].entries = <<objects[id], objects[sibling]>>
            /\ r.error = NoError
            /\ r.s.heap[root].entries = <<objects[sibling]>>
            /\ r.s.heap[root].modifiedAt > heap[root].modifiedAt
            /\ r.s.heap[objects[sibling]] = heap[objects[sibling]]

\* the move of the folder id under the folder parentId leaves everything
\* below the moved folder as it is: every descendant is the same entry under
\* the same id with the same parent, name, content, children and dates, and
\* every descendant that could be reached from the root by child lists still
\* can
MoveKeepsDescendants(id, parentId, ticks) ==
    \A r \in {updateFolder(State, ticks, id, undefined, Str(parentId))} :
       r.error = NoError =>
          \A d \in Reachable(heap, {objects[id]}) \ {objects[id]} :
             /\ r.s.heap[d] = heap[d]
             /\ MapGet(r.s.objects, heap[d].id) = d
             /\ MapGet(r.s.parents, heap[d].id) = parents[heap[d].id]
             /\ d \in Reachable(heap, {root})
                   => d \in Reachable(r.s.heap, {r.s.root})

\* C35: a successful move of a folder by updateFolder changes the folder's
\* parent link, the child lists of the two parents and dates of theirs and
\* of the folder, and nothing below the folder: every descendant keeps its
\* parent, name, content, position and dates, stays registered, and stays
\* reachable from the root.
C35_MoveLeavesDescendantsAlone ==
    \A id \in Folders, parentId \in Folders, ticks \in ProbeTicks :
        MoveKeepsDescendants(id, parentId, ticks)

\* C36: the folder view and the per-entry view agree: for every registered
\* folder f, every element c of the entries of getFolder(f) has f's id as
\* parent_id, and is the record getFile(c.id) returns when it is a file, and
\* the record getFolder(c.id) returns, less its entries, when it is a folder.
C36_FolderViewAgreesWithEntryView ==
    \A f \in Folders :
        \A listed \in {getFolder(State, f).result.entries} :
           \A i \in 1..Len(listed) :
              LET c == listed[i]
                  own == IF c.type = "file" THEN getFile(State, c.id)
                         ELSE getFolder(State, c.id)
              IN  /\ c.parent_id = Str(f)
                  /\ own.error = NoError
                  /\ DOMAIN c = DOMAIN own.result \ {"entries"}
                  /\ \A field \in DOMAIN c : c[field] = own.result[field]
                  /\ c.type = "file" => "size" \in DOMAIN c
                  /\ c.type = "folder" => "entries" \in DOMAIN own.result

\* a folder below the root lists a file, with its size, and the root lists
\* the folder
C36_Witness ==
    \E f \in Folders, file \in Files :
        /\ objects[f] # root
        /\ heap[root].entries = <<objects[f]>>
        /\ heap[objects[f]].entries = <<objects[file]>>
        /\ getFolder(State, f).result.entries[1].size = 0
        /\ getFolder(State, f).result.entries[1].id = file
        /\ getFolder(State, heap[root].id).result.entries[1].id = f
        /\ Len(getFolder(State, f).result.entries) = 1

\* ------------------------------------------------------------------------
\* C37: the clock never goes backwards, and no operation makes the
\* modified_at of an entry smaller: for every step of the store and every id
\* registered before and after it, the entry's modifiedAt after the step is
\* at least what it was before, also where the step copies a folder's stamp
\* into a child (attach, detach) or a file's stamp into its parent (content).
C37_ModifiedAtNeverDecreases ==
    [][/\ now' >= now
       /\ \A id \in Registered \cap DOMAIN objects' :
              heap'[objects'[id]].modifiedAt >=
                  heap[objects[id]].modifiedAt]_vars

\* A file update has just run with the clock advancing: the file and its
\* parent, both older than this step, carry the time of the step.
C37_Witness ==
    /\ last.op = "updateFile"
    /\ last.error = NoError
    /\ now > 0
    /\ \E id \in Registered :
          /\ IsRegisteredFile(id)
          /\ heap[objects[id]].createdAt < now
          /\ heap[objects[id]].modifiedAt = now
          /\ \E p \in Registered :
                /\ parents[id] = objects[p]
                /\ heap[objects[p]].createdAt < now
                /\ heap[objects[p]].modifiedAt = now

\* ------------------------------------------------------------------------
\* C38: ids come from one counter of the module. Every step leaves the
\* counter alone or adds one to it; a successful create returns the decimal
\* string of the counter as it was and adds one; constructing another store,
\* with or without a root id, adds one too and leaves the counter, and the id
\* the next create is given, as they would be without the root id.
C38_IdsFollowTheSharedCounter ==
    [][/\ nextId' \in {nextId, nextId + 1}
       /\ (last'.op \in {"createFile", "createFolder"}
             /\ last'.error = NoError)
            => /\ last'.result.id = String(nextId)
               /\ nextId' = nextId + 1
       /\ last'.op = "constructor"
            => \A plain \in {constructor(State, <<>>, undefined)} :
                  /\ nextId' = nextId + 1
                  /\ nextId' = plain.s.nextId
                  /\ createFile(State', <<>>, "a", undefined,
                                 undefined).result.id
                         = createFile(plain.s, <<>>, "a", undefined,
                                      undefined).result.id
                  /\ createFolder(State', <<>>, "a", undefined).result.id
                         = createFolder(plain.s, <<>>, "a",
                                        undefined).result.id]_vars

\* The store was constructed with the root id "2", and a create in it has
\* just been given the next value of the counter, two allocations later.
C38_Witness ==
    /\ last.op \in {"createFile", "createFolder"}
    /\ last.error = NoError
    /\ heap[root].id = "2"
    /\ nextId >= 3
    /\ last.result.id = String(nextId - 1)

====
